---- MODULE Spec2Model ----
(***************************************************************************)
(* A model of SerperClient (the event search pipeline): the asynchronous   *)
(* searchEvents operation with its timeout wiring, and the pure            *)
(* classification / extraction / scoring functions it runs over a provider *)
(* response.  Text is modelled character by character: JavaScript strings  *)
(* are TLA+ strings, and every regular expression of the source is         *)
(* transcribed into a small syntax tree that a backtracking matcher runs   *)
(* in JavaScript's priority order.                                         *)
(***************************************************************************)
EXTENDS Integers, Sequences, FiniteSets, TLC

(***************************************************************************)
(* Strings                                                                 *)
(***************************************************************************)
UpperAlpha == "ABCDEFGHIJKLMNOPQRSTUVWXYZ"
LowerAlpha == "abcdefghijklmnopqrstuvwxyz"
DigitChars == "0123456789"

Min(a, b) == IF a <= b THEN a ELSE b

\* The set of the characters of a string.
Chars(str) == {SubSeq(str, k, k) : k \in 1..Len(str)}

UpperSet == Chars(UpperAlpha)
LowerSet == Chars(LowerAlpha)
DigitSet == Chars(DigitChars)
LetterSet == UpperSet \cup LowerSet
\* \s of the regular expressions: the white space the modelled texts use.
SpaceSet == {" "}
\* \w of the regular expressions, which decides \b.
WordSet == LetterSet \cup DigitSet \cup {"_"}

LowerMap ==
  [c \in UpperSet |->
     LET k == CHOOSE j \in 1..26 : SubSeq(UpperAlpha, j, j) = c
     IN  SubSeq(LowerAlpha, k, k)]

LowerChar(c) == IF c \in UpperSet THEN LowerMap[c] ELSE c

\* String.prototype.toLowerCase (the string is halved to keep the recursion shallow)
RECURSIVE toLowerCase(_)
toLowerCase(s) ==
  IF Len(s) = 0 THEN ""
  ELSE IF Len(s) = 1 THEN LowerChar(s)
  ELSE toLowerCase(SubSeq(s, 1, Len(s) \div 2))
         \o toLowerCase(SubSeq(s, (Len(s) \div 2) + 1, Len(s)))

\* String.prototype.includes
includes(text, part) ==
  \/ Len(part) = 0
  \/ \E i \in 1..(Len(text) - Len(part) + 1) :
        SubSeq(text, i, i + Len(part) - 1) = part

\* String.prototype.trim
trim(s) ==
  LET inked == {k \in 1..Len(s) : SubSeq(s, k, k) \notin SpaceSet}
  IN  IF inked = {} THEN ""
      ELSE SubSeq(s, CHOOSE a \in inked : \A k \in inked : a <= k,
                     CHOOSE b \in inked : \A k \in inked : b >= k)

\* The number a string of decimal digits denotes.
DigitValue(c) == (CHOOSE j \in 1..10 : SubSeq(DigitChars, j, j) = c) - 1

RECURSIVE ParseInt(_)
ParseInt(s) ==
  IF Len(s) = 0 THEN 0
  ELSE 10 * ParseInt(SubSeq(s, 1, Len(s) - 1)) + DigitValue(SubSeq(s, Len(s), Len(s)))

(***************************************************************************)
(* Regular expressions.  A pattern is a tree:                              *)
(*   Lit(str)        the characters of str                                 *)
(*   Cls(set)        one character of set        NotCls(set): one not in it*)
(*   WB              \b                                                    *)
(*   Cat(<<..>>)     concatenation               Alt(<<..>>): alternation  *)
(*   Rep(r, lo, hi)  greedy repetition, hi = Unbounded for + and *         *)
(*   Grp(n, r)       capturing group number n                              *)
(* Match returns the ways the pattern matches at position i, as records    *)
(* [e |-> the position after the match, c |-> the captures], in the order  *)
(* JavaScript's backtracking tries them; the first one is the match exec   *)
(* reports.  ci is the i flag.                                             *)
(***************************************************************************)
Unbounded == 0 - 1

Lit(str) == [op |-> "lit", s |-> str]
Cls(set) == [op |-> "cls", cs |-> set, neg |-> FALSE]
NotCls(set) == [op |-> "cls", cs |-> set, neg |-> TRUE]
WB == [op |-> "wb"]
Cat(rs) == [op |-> "cat", rs |-> rs]
Alt(rs) == [op |-> "alt", rs |-> rs]
Rep(r, lo, hi) == [op |-> "rep", r |-> r, lo |-> lo, hi |-> hi]
Grp(n, r) == [op |-> "grp", n |-> n, r |-> r]
Plus(r) == Rep(r, 1, Unbounded)
Star(r) == Rep(r, 0, Unbounded)
Opt(r) == Rep(r, 0, 1)
\* An alternation of literals, (a|b|c).
Words(strs) == Alt([k \in 1..Len(strs) |-> Lit(strs[k])])

NoCaptures == <<"", "", "">>

IsWordChar(s, i) == i >= 1 /\ i <= Len(s) /\ SubSeq(s, i, i) \in WordSet

\* c is a character the class re accepts.
InClass(ci, c, re) ==
  re.neg # (IF ci THEN LowerChar(c) \in {LowerChar(d) : d \in re.cs} ELSE c \in re.cs)

\* Two texts are the same, up to the case of letters under the i flag.
SameText(ci, a, b) == IF ci THEN toLowerCase(a) = toLowerCase(b) ELSE a = b

LitAt(ci, s, i, str) ==
  /\ i + Len(str) - 1 <= Len(s)
  /\ SameText(ci, SubSeq(s, i, i + Len(str) - 1), str)

RECURSIVE Match(_, _, _, _, _)
RECURSIVE MatchEach(_, _, _, _, _, _)
RECURSIVE MatchAlt(_, _, _, _, _, _)
RECURSIVE MatchRest(_, _, _, _)

\* The pattern rest continued from each of the matches ms[lo..hi], in order
\* (the range is halved to keep the recursion shallow).
MatchEach(ms, rest, ci, s, lo, hi) ==
  IF lo > hi THEN <<>>
  ELSE IF lo = hi THEN Match(rest, ci, s, ms[lo].e, ms[lo].c)
  ELSE MatchEach(ms, rest, ci, s, lo, (lo + hi) \div 2)
         \o MatchEach(ms, rest, ci, s, ((lo + hi) \div 2) + 1, hi)

\* The least number of a set of numbers, or other for the empty set.
Least(set, other) == IF set = {} THEN other ELSE CHOOSE j \in set : \A k \in set : j <= k

\* The length of the longest run of characters of the class re from position i.
RunLength(re, ci, s, i) ==
  Least({j \in i..Len(s) : ~InClass(ci, SubSeq(s, j, j), re)}, Len(s) + 1) - i

\* A run of most characters at most, lo at least: the longest first.
Runs(most, lo, i, caps) ==
  IF most < lo THEN <<>>
  ELSE [k \in 1..(most - lo + 1) |-> [e |-> i + most - k + 1, c |-> caps]]

\* The matches ms of a group's pattern, with the group's text captured.
Captured(ms, n, s, i) ==
  [k \in 1..Len(ms) |->
     [e |-> ms[k].e, c |-> [ms[k].c EXCEPT ![n] = SubSeq(s, i, ms[k].e - 1)]]]

\* The matches that consume at least one character.
Advancing(ms, i) == SelectSeq(ms, LAMBDA m : m.e > i)

\* The pattern rest continued from each of the matches ms.
MatchRest(ms, rest, ci, s) == MatchEach(ms, rest, ci, s, 1, Len(ms))

MatchAlt(rs, k, ci, s, i, caps) ==
  IF k > Len(rs) THEN <<>>
  ELSE Match(rs[k], ci, s, i, caps) \o MatchAlt(rs, k + 1, ci, s, i, caps)

Match(re, ci, s, i, caps) ==
  CASE re.op = "lit" ->
         IF LitAt(ci, s, i, re.s) THEN <<[e |-> i + Len(re.s), c |-> caps]>> ELSE <<>>
    [] re.op = "cls" ->
         IF i <= Len(s) /\ InClass(ci, SubSeq(s, i, i), re)
         THEN <<[e |-> i + 1, c |-> caps]>> ELSE <<>>
    [] re.op = "wb" ->
         IF IsWordChar(s, i - 1) # IsWordChar(s, i)
         THEN <<[e |-> i, c |-> caps]>> ELSE <<>>
    [] re.op = "cat" ->
         IF Len(re.rs) = 0 THEN <<[e |-> i, c |-> caps]>>
         ELSE MatchRest(Match(Head(re.rs), ci, s, i, caps), Cat(Tail(re.rs)), ci, s)
    [] re.op = "alt" -> MatchAlt(re.rs, 1, ci, s, i, caps)
    [] re.op = "rep" /\ re.r.op = "cls" ->
         \* a repeated character class: the longest run first, then shorter ones
         Runs(IF re.hi = Unbounded THEN RunLength(re.r, ci, s, i)
              ELSE Min(RunLength(re.r, ci, s, i), re.hi),
              re.lo, i, caps)
    [] re.op = "rep" /\ re.r.op # "cls" ->
         \* once more and then the rest of the repetitions, or no more
         (IF re.hi = 0 THEN <<>>
          ELSE MatchRest(Advancing(Match(re.r, ci, s, i, caps), i),
                         Rep(re.r, IF re.lo > 0 THEN re.lo - 1 ELSE 0,
                             IF re.hi = Unbounded THEN Unbounded ELSE re.hi - 1),
                         ci, s))
         \o (IF re.lo = 0 THEN <<[e |-> i, c |-> caps]>> ELSE <<>>)
    [] re.op = "grp" -> Captured(Match(re.r, ci, s, i, caps), re.n, s, i)

\* RegExp.prototype.test: the pattern matches somewhere in s.
Test(re, ci, s) == \E i \in 1..(Len(s) + 1) : Len(Match(re, ci, s, i, NoCaptures)) > 0

\* The leftmost of the matches found: ms[i] are the matches at position i.
Leftmost(ms, s) ==
  LET starts == {i \in DOMAIN ms : Len(ms[i]) > 0}
      at == Least(starts, 0)
  IN  IF starts = {}
      THEN [found |-> FALSE, at |-> 0, e |-> 0, all |-> "", c |-> NoCaptures]
      ELSE [found |-> TRUE, at |-> at, e |-> ms[at][1].e,
            all |-> SubSeq(s, at, ms[at][1].e - 1), c |-> ms[at][1].c]

\* String.prototype.match without the g flag, from position from on: the
\* leftmost match, its text (m[0]) and its captures, or found = FALSE (null).
ExecFrom(re, ci, s, from) ==
  Leftmost([i \in from..(Len(s) + 1) |-> Match(re, ci, s, i, NoCaptures)], s)

Exec(re, ci, s) == ExecFrom(re, ci, s, 1)

(***************************************************************************)
(* The pattern library of SerperClient                                     *)
(***************************************************************************)
Digit == Cls(DigitSet)
Space == Cls(SpaceSet)
MonthNames ==
  <<"january", "february", "march", "april", "may", "june", "july", "august",
    "september", "october", "november", "december">>
MonthAbbrevs ==
  <<"jan", "feb", "mar", "apr", "may", "jun", "jul", "aug", "sep", "oct", "nov", "dec">>

\* filterEventResults: eventKeywords
eventKeywords ==
  <<"event", "festival", "concert", "conference", "workshop", "meetup",
    "seminar", "exhibition", "show", "performance", "gathering", "summit",
    "fair", "expo", "convention", "symposium", "webinar", "class",
    "eventbrite", "meetup.com", "facebook.com/events", "tickets",
    "registration", "rsvp", "calendar">>

\* Array.prototype.some(keyword => text.includes(keyword))
someIncluded(text, words) == \E k \in 1..Len(words) : includes(text, words[k])

\* containsDatePattern: datePatterns, each with its i flag
containsDatePatterns ==
  << [re |-> Cat(<<WB, Grp(1, Words(MonthNames)), Plus(Space), Rep(Digit, 1, 2)>>),
      ci |-> TRUE],
     [re |-> Cat(<<WB, Rep(Digit, 1, 2), Lit("/"), Rep(Digit, 1, 2), Lit("/"),
                   Rep(Digit, 2, 4), WB>>),
      ci |-> FALSE],
     [re |-> Cat(<<WB, Grp(1, Words(<<"mon", "tue", "wed", "thu", "fri", "sat", "sun">>)),
                   Star(Cls(LowerSet)), Star(Space), Opt(Lit(",")), Star(Space),
                   Grp(2, Words(MonthAbbrevs))>>),
      ci |-> TRUE],
     [re |-> Cat(<<WB, Grp(1, Alt(<<Lit("today"), Lit("tomorrow"), Lit("tonight"),
                                    Cat(<<Lit("this"), Plus(Space),
                                          Grp(2, Words(<<"week", "weekend", "month">>))>>)>>)),
                   WB>>),
      ci |-> TRUE],
     [re |-> Cat(<<WB, Rep(Digit, 1, 2), Grp(1, Words(<<"st", "nd", "rd", "th">>)),
                   Plus(Space), Opt(Grp(2, Cat(<<Lit("of"), Plus(Space)>>))),
                   Grp(3, Words(MonthNames))>>),
      ci |-> TRUE] >>

\* Array.prototype.some(pattern => pattern.test(text))
somePatternTests(patterns, text) ==
  \E k \in 1..Len(patterns) : Test(patterns[k].re, patterns[k].ci, text)

containsDatePattern(text) == somePatternTests(containsDatePatterns, text)

StreetWords ==
  <<"street", "st", "avenue", "ave", "road", "rd", "boulevard", "blvd", "drive", "dr">>

\* containsVenuePattern: venuePatterns; the first one has no i flag
containsVenuePatterns ==
  << [re |-> Cat(<<WB, Grp(1, Words(<<"at", "@">>)), Plus(Space), Cls(UpperSet),
                   Plus(Cls(LetterSet \cup SpaceSet)), WB>>),
      ci |-> FALSE],
     [re |-> Cat(<<WB, Grp(1, Words(<<"venue", "location", "address", "hall", "center",
                                      "theatre", "theater", "auditorium", "stadium",
                                      "arena">>)), WB>>),
      ci |-> TRUE],
     [re |-> Cat(<<WB, Plus(Digit), Plus(Space), Cls(UpperSet),
                   Plus(Cls(LetterSet \cup SpaceSet)), Plus(Space),
                   Grp(1, Words(StreetWords)), WB>>),
      ci |-> TRUE] >>

containsVenuePattern(text) == somePatternTests(containsVenuePatterns, text)

(***************************************************************************)
(* JavaScript values.  A value read from the provider's JSON is tagged     *)
(* with its type; v is its string form (String(value)).  A RawResult is a  *)
(* record holding some of the keys title, snippet, link, question.         *)
(***************************************************************************)
S(str) == [t |-> "string", v |-> str]
N(str) == [t |-> "number", v |-> str]
Obj == [t |-> "object", v |-> "[object Object]"]
\* an array whose string form is empty, such as [] or [""]
BlankArray == [t |-> "object", v |-> ""]
Undefined == [t |-> "undefined", v |-> "undefined"]
Null == [t |-> "null", v |-> "null"]

\* result.key
Field(result, key) == IF key \in DOMAIN result THEN result[key] ELSE Undefined

\* ToBoolean
Truthy(j) ==
  CASE j.t = "string" -> Len(j.v) > 0
    [] j.t = "number" -> j.v # "0"
    [] j.t = "object" -> TRUE
    [] OTHER -> FALSE

\* a || b
OrElse(a, b) == IF Truthy(a) THEN a ELSE b

\* String(value), as template literals and + apply it
StringOf(j) == j.v

\* Array.prototype.filter(Boolean) over a sequence of records and nulls
IsNull(j) == "t" \in DOMAIN j /\ j.t = "null"

(***************************************************************************)
(* Dates.  A timestamp is the local civil time a Date object holds: year,  *)
(* month, day and the milliseconds since that day's midnight.              *)
(***************************************************************************)
IsLeap(y) == (y % 4 = 0 /\ y % 100 # 0) \/ y % 400 = 0

DaysInMonth(y, m) ==
  IF m = 2 THEN (IF IsLeap(y) THEN 29 ELSE 28)
  ELSE IF m \in {4, 6, 9, 11} THEN 30 ELSE 31

\* MakeDay: a day past the month's end runs into the next month.
MakeDate(y, m, d) ==
  IF d <= DaysInMonth(y, m) THEN [y |-> y, m |-> m, d |-> d, ms |-> 0]
  ELSE IF m = 12 THEN [y |-> y + 1, m |-> 1, d |-> d - DaysInMonth(y, m), ms |-> 0]
  ELSE [y |-> y, m |-> m + 1, d |-> d - DaysInMonth(y, m), ms |-> 0]

InvalidDate == [y |-> 0, m |-> 0, d |-> 0, ms |-> 0]

\* The month a word names: the legacy date parser reads its first three letters.
MonthOfWord(w) ==
  LET hits == {k \in 1..12 : Len(w) >= 3 /\ toLowerCase(SubSeq(w, 1, 3)) = MonthAbbrevs[k]}
  IN  IF hits = {} THEN 0 ELSE CHOOSE k \in hits : TRUE

DateStrNamed ==
  Cat(<<Grp(1, Plus(Cls(LetterSet))), Lit(" "), Grp(2, Plus(Digit)), Lit(", "),
        Grp(3, Plus(Digit))>>)
DateStrNumbers ==
  Cat(<<Grp(1, Plus(Digit)), Lit(" "), Grp(2, Plus(Digit)), Lit(", "), Grp(3, Plus(Digit))>>)
DateStrSlash ==
  Cat(<<Grp(1, Plus(Digit)), Lit("/"), Grp(2, Plus(Digit)), Lit("/"), Grp(3, Plus(Digit))>>)

\* The captures of the first of the matches ms, or <<>>.
FirstCaptures(ms) == IF Len(ms) = 0 THEN <<>> ELSE ms[1].c

\* The whole of s matches re: the captures, or <<>>.
FullMatch(re, s) ==
  FirstCaptures(SelectSeq(Match(re, FALSE, s, 1, NoCaptures), LAMBDA m : m.e = Len(s) + 1))

IsDay(n) == n >= 1 /\ n <= 31
IsMonth(n) == n >= 1 /\ n <= 12

\* A year of one or two digits is read as 20xx up to 49 and 19xx from 50.
FullYear(y) == IF y <= 49 THEN y + 2000 ELSE IF y <= 99 THEN y + 1900 ELSE y

ComposeDay(y, m, d) ==
  IF IsMonth(m) /\ IsDay(d) THEN MakeDate(FullYear(y), m, d) ELSE InvalidDate

\* A variant that always reads "Month A, B" as year A and day B.
YearFirstDate(month, a, b) == IF month = 0 THEN InvalidDate ELSE ComposeDay(a, month, b)

\* "Month A, B": A is the day unless it is no day of a month, and then the year.
NamedDate(month, a, b) ==
  IF month = 0 THEN InvalidDate
  ELSE IF IsDay(a) THEN ComposeDay(b, month, a) ELSE ComposeDay(a, month, b)

\* "A B, C" and "A/B/C": month, day, year, unless A is no day of a month, and
\* then year, month, day.
NumbersDate(a, b, c) == IF IsDay(a) THEN ComposeDay(c, a, b) ELSE ComposeDay(a, b, c)

\* The date of a text by the shape it has; any other text (a word after a
\* number, as in "3 rd, march") is an Invalid Date.
ParsedDate(named, numbers, slash) ==
  IF named # <<>>
  THEN NamedDate(MonthOfWord(named[1]), ParseInt(named[2]), ParseInt(named[3]))
  ELSE IF numbers # <<>> \/ slash # <<>>
  THEN NumbersDate(ParseInt((numbers \o slash)[1]), ParseInt((numbers \o slash)[2]),
                   ParseInt((numbers \o slash)[3]))
  ELSE InvalidDate

\* new Date(dateStr), as the engine's legacy parser reads the shapes
\* extractDateInfo can build.
NewDate(dateStr) ==
  ParsedDate(FullMatch(DateStrNamed, dateStr), FullMatch(DateStrNumbers, dateStr),
             FullMatch(DateStrSlash, dateStr))

\* String(now.getFullYear())
RECURSIVE IntToString(_)
IntToString(n) ==
  IF n < 10 THEN SubSeq(DigitChars, n + 1, n + 1)
  ELSE IntToString(n \div 10) \o SubSeq(DigitChars, (n % 10) + 1, (n % 10) + 1)

(***************************************************************************)
(* extractDateInfo                                                         *)
(***************************************************************************)
MonthGroup == Words(MonthNames)
MonthSource == "(january|february|march|april|may|june|july|august|september|october|november|december)"

\* extractDateInfo: datePatterns, with the source text the branches inspect
extractDatePatterns ==
  << [re |-> Cat(<<WB, Grp(1, MonthGroup), Plus(Space), Grp(2, Rep(Digit, 1, 2)),
                   Opt(Lit(",")), Star(Space), Opt(Grp(3, Rep(Digit, 4, 4)))>>),
      ci |-> TRUE,
      source |-> "\\b" \o MonthSource \o "\\s+(\\d{1,2}),?\\s*(\\d{4})?"],
     [re |-> Cat(<<WB, Grp(1, Rep(Digit, 1, 2)), Lit("/"), Grp(2, Rep(Digit, 1, 2)),
                   Lit("/"), Grp(3, Rep(Digit, 2, 4)), WB>>),
      ci |-> FALSE,
      source |-> "\\b(\\d{1,2})\\/(\\d{1,2})\\/(\\d{2,4})\\b"],
     [re |-> Cat(<<WB, Grp(1, Rep(Digit, 1, 2)), Grp(2, Words(<<"st", "nd", "rd", "th">>)),
                   Plus(Space), Grp(3, MonthGroup)>>),
      ci |-> TRUE,
      source |-> "\\b(\\d{1,2})(st|nd|rd|th)\\s+" \o MonthSource] >>

\* The dateStr the body of the loop builds from a match of pattern.
DateStrOf(pattern, match, now) ==
  IF includes(pattern.source, "january|february")
  THEN match[1] \o " " \o match[2] \o ", "
         \o (IF Len(match[3]) > 0 THEN match[3] ELSE IntToString(now.y))
  ELSE IF includes(pattern.source, "\\d{1,2}\\/")
  THEN match[1] \o "/" \o match[2] \o "/"
         \o (IF Len(match[3]) = 2 THEN "20" \o match[3] ELSE match[3])
  ELSE match[3] \o " " \o match[1] \o ", " \o IntToString(now.y)

\* The for loop from pattern k on: the first match that parses to a valid date.
RECURSIVE DateLoop(_, _, _)
\* A variant that returns the parsed date without the isNaN check.
UncheckedDate(parsedDate, text, now, k) == parsedDate

\* The if of the loop's body: a valid parsedDate is returned.
DateFound(parsedDate, text, now, k) ==
  IF parsedDate # InvalidDate THEN parsedDate ELSE DateLoop(text, now, k + 1)

\* The body of the loop for pattern and its match.
DateBody(pattern, match, text, now, k) ==
  IF match.found THEN DateFound(NewDate(DateStrOf(pattern, match.c, now)), text, now, k)
  ELSE DateLoop(text, now, k + 1)

DateLoop(text, now, k) ==
  IF k > Len(extractDatePatterns) THEN now
  ELSE DateBody(extractDatePatterns[k],
                Exec(extractDatePatterns[k].re, extractDatePatterns[k].ci, text),
                text, now, k)

\* startDate and endDate are the same timestamp.
DateInfo(startDate) == [startDate |-> startDate, endDate |-> startDate]

extractDateInfo(text, now) == DateInfo(DateLoop(text, now, 1))

(***************************************************************************)
(* extractVenue                                                            *)
(***************************************************************************)
VenueNameChar == Cls(LetterSet \cup SpaceSet \cup {"&", "'", "-"})
VenueNouns ==
  <<"Center", "Centre", "Hall", "Theatre", "Theater", "Auditorium", "Stadium", "Arena">>
VenueNounsAt == VenueNouns \o <<"Club", "Bar", "Restaurant", "Hotel", "Museum", "Gallery", "Park">>

\* extractVenue: venuePatterns, all with the i flag
extractVenuePatterns ==
  << Cat(<<WB, Words(<<"at", "@">>), Plus(Space),
           Grp(1, Cat(<<Cls(UpperSet), Plus(VenueNameChar), Words(VenueNounsAt)>>)), WB>>),
     Cat(<<WB, Grp(1, Cat(<<Cls(UpperSet), Plus(VenueNameChar), Words(VenueNouns)>>)), WB>>),
     Cat(<<WB, Words(<<"venue", "location">>), Lit(":"), Star(Space),
           Grp(1, Cat(<<Cls(UpperSet), Plus(VenueNameChar)>>))>>) >>

SeeEventPage == "See Event Page"

\* The for loop from pattern k on: the first pattern with a captured group.
RECURSIVE VenueLoop(_, _)
\* The body of the loop: if (match && match[1]) return match[1].trim()
VenueBody(match, text, k) ==
  IF match.found /\ Len(match.c[1]) > 0 THEN trim(match.c[1])
  ELSE VenueLoop(text, k + 1)

VenueLoop(text, k) ==
  IF k > Len(extractVenuePatterns) THEN SeeEventPage
  ELSE VenueBody(Exec(extractVenuePatterns[k], TRUE, text), text, k)

extractVenue(text) == VenueLoop(text, 1)

(***************************************************************************)
(* extractTicketUrl.  An operator that can throw returns a record with     *)
(* threw = TRUE, or threw = FALSE and the value v.                         *)
(***************************************************************************)
Threw(message) == [threw |-> TRUE, message |-> message]
Returned(value) == [threw |-> FALSE, v |-> value]

ticketDomains == <<"eventbrite.com", "ticketmaster.com", "universe.com", "brownpapertickets.com">>

\* /https?:\/\/[^\s]+/g
urlPattern == Cat(<<Lit("http"), Opt(Lit("s")), Lit("://"), Plus(NotCls(SpaceSet))>>)

\* String.prototype.match with the g flag: every match, left to right.
RECURSIVE MatchAll(_, _, _)
\* The match m and the matches after it.
MatchAllAfter(m, re, s) == IF ~m.found THEN <<>> ELSE <<m.all>> \o MatchAll(re, s, m.e)

MatchAll(re, s, from) == MatchAllAfter(ExecFrom(re, FALSE, s, from), re, s)

\* The for loop over urls from index k on.
RECURSIVE FirstTicketUrl(_, _)
FirstTicketUrl(urls, k) ==
  IF k > Len(urls) THEN Null
  ELSE IF someIncluded(urls[k], ticketDomains) THEN S(urls[k])
  ELSE FirstTicketUrl(urls, k + 1)

extractTicketUrl(eventUrl, snippet) ==
  IF Truthy(eventUrl) /\ eventUrl.t # "string"
  THEN Threw("eventUrl.includes is not a function")
  ELSE IF Truthy(eventUrl) /\ someIncluded(eventUrl.v, ticketDomains)
  THEN Returned(eventUrl)
  ELSE IF snippet.t # "string"
  THEN Threw("snippet.match is not a function")
  ELSE Returned(FirstTicketUrl(MatchAll(urlPattern, snippet.v, 1), 1))

(***************************************************************************)
(* calculateConfidence.  Scores are in hundredths: 60 is 0.6.              *)
(***************************************************************************)
BaseConfidence == 60
DomainBoost == 20
CategoryBoost == 10
KeywordBoost == 10
DateBoost == 5
MaxConfidence == 100

eventDomains == <<"eventbrite.com", "meetup.com", "facebook.com/events", "lu.ma">>
coreKeywords == <<"event", "festival", "concert", "conference", "workshop">>

\* `${result.title || ''} ${result.snippet || ''} ${result.link || ''}`.toLowerCase()
ConfidenceText(result) ==
  toLowerCase(StringOf(OrElse(Field(result, "title"), S(""))) \o " "
              \o StringOf(OrElse(Field(result, "snippet"), S(""))) \o " "
              \o StringOf(OrElse(Field(result, "link"), S(""))))

\* A variant without the cap.
Uncapped(confidence) == confidence

\* Math.min(confidence, 1.0)
CapConfidence(confidence) == Min(confidence, MaxConfidence)

\* The base confidence and the boosts the text of a result earns.
Boosted(text, category) ==
  BaseConfidence
    + (IF someIncluded(text, eventDomains) THEN DomainBoost ELSE 0)
    + (IF includes(text, toLowerCase(category)) THEN CategoryBoost ELSE 0)
    + (IF someIncluded(text, coreKeywords) THEN KeywordBoost ELSE 0)
    + (IF containsDatePattern(text) THEN DateBoost ELSE 0)

calculateConfidence(result, category) ==
  CapConfidence(Boosted(ConfidenceText(result), category))

(***************************************************************************)
(* filterEventResults                                                      *)
(***************************************************************************)
\* value.toLowerCase(): a value that is no string has no toLowerCase.
LowerOf(value) ==
  IF value.t # "string" THEN Threw("toLowerCase is not a function")
  ELSE Returned(toLowerCase(value.v))

\* (result.key || '').toLowerCase(); a null result has no properties.
LowerField(result, key) ==
  IF IsNull(result) THEN Threw("Cannot read properties of null")
  ELSE LowerOf(OrElse(Field(result, key), S("")))

ResultKeys == <<"title", "snippet", "link", "question">>

\* One of the outcomes is a throw, and the first of them that is.
AnyThrew(outcomes) == \E k \in DOMAIN outcomes : outcomes[k].threw
FirstThrown(outcomes) == outcomes[Least({k \in DOMAIN outcomes : outcomes[k].threw}, 0)]

\* `${title} ${snippet} ${link} ${question}` of the four lowered parts
Joined(parts) ==
  IF AnyThrew(parts) THEN FirstThrown(parts)
  ELSE Returned(parts[1].v \o " " \o parts[2].v \o " " \o parts[3].v \o " " \o parts[4].v)

SearchText(result) == Joined([k \in 1..4 |-> LowerField(result, ResultKeys[k])])

\* The three criteria of the filter's callback, over the combined text.
HasKeyword(searchText) == someIncluded(searchText, eventKeywords)

IsEventLike(searchText) ==
  \/ HasKeyword(searchText)
  \/ containsDatePattern(searchText)
  \/ containsVenuePattern(searchText)

\* A variant that keeps the results in reverse order.
KeptReversed(results, texts) ==
  LET pairs == SelectSeq([k \in 1..Len(results) |->
                            [result |-> results[Len(results) + 1 - k],
                             text |-> texts[Len(results) + 1 - k].v]],
                         LAMBDA p : IsEventLike(p.text))
  IN  [k \in 1..Len(pairs) |-> pairs[k].result]

\* The results whose combined text meets one of the criteria, in order.
Kept(results, texts) ==
  LET pairs == SelectSeq([k \in 1..Len(results) |-> [result |-> results[k], text |-> texts[k].v]],
                         LAMBDA p : IsEventLike(p.text))
  IN  [k \in 1..Len(pairs) |-> pairs[k].result]

\* The filter over the results and the outcomes of building their texts.
Filtered(results, texts) ==
  IF AnyThrew(texts) THEN FirstThrown(texts) ELSE Returned(Kept(results, texts))

\* results.filter(result => ...): the kept results in order; the first
\* callback that throws ends the whole filter.
filterEventResults(results) ==
  Filtered(results, [k \in 1..Len(results) |-> SearchText(results[k])])

(***************************************************************************)
(* transformEvent                                                          *)
(***************************************************************************)
AlnumSet == LetterSet \cup DigitSet

\* title.replace(/[^a-zA-Z0-9]/g, '_')
RECURSIVE replaceNonAlnum(_)
replaceNonAlnum(s) ==
  IF Len(s) = 0 THEN ""
  ELSE IF Len(s) = 1 THEN (IF s \in AlnumSet THEN s ELSE "_")
  ELSE replaceNonAlnum(SubSeq(s, 1, Len(s) \div 2))
         \o replaceNonAlnum(SubSeq(s, (Len(s) \div 2) + 1, Len(s)))

DefaultDescription == "Event details available on the event page."

\* The event object of the return statement; a throw of extractTicketUrl is
\* caught like every other and gives null.
EventOf(serperResult, category, title, snippet, dateInfo, venue, ticketUrl) ==
  IF ticketUrl.threw THEN Null
  ELSE [id |-> "serper_" \o toLowerCase(replaceNonAlnum(title)),
        title |-> title,
        description |-> OrElse(snippet, S(DefaultDescription)),
        category |-> category,
        venue |-> venue,
        location |-> venue,
        startDate |-> dateInfo.startDate,
        endDate |-> dateInfo.endDate,
        eventUrl |-> Field(serperResult, "link"),
        ticketUrl |-> ticketUrl.v,
        source |-> "serper_api",
        confidence |-> calculateConfidence(serperResult, category),
        thumbnail |-> Null]

\* `${title} ${snippet}`
TitleAndSnippet(title, snippet) == StringOf(title) \o " " \o StringOf(snippet)

\* The try block after the title check, for the title and snippet read.
Transformed(serperResult, category, now, title, snippet) ==
  IF ~Truthy(title) THEN Null
  ELSE IF title.t # "string" THEN Null      \* title.replace is not a function
  ELSE EventOf(serperResult, category, title.v, snippet,
               extractDateInfo(TitleAndSnippet(title, snippet), now),
               extractVenue(TitleAndSnippet(title, snippet)),
               extractTicketUrl(Field(serperResult, "link"), snippet))

\* The body of the try block; every throw in it is caught and gives null.
transformEvent(serperResult, category, now) ==
  Transformed(serperResult, category, now,
              OrElse(Field(serperResult, "title"), Field(serperResult, "question")),
              OrElse(Field(serperResult, "snippet"), S("")))

(***************************************************************************)
(* searchEvents: the synchronous parts                                     *)
(***************************************************************************)
baseUrl == "https://google.serper.dev/search"
TimeoutMs == 15000
MaxNum == 20
RelatedShown == 5

\* `${category} events in ${location} 2025`
Query(category, location) == category \o " events in " \o location \o " 2025"

Payload(category, location, limit) ==
  [q |-> Query(category, location), gl |-> "us", hl |-> "en",
   num |-> Min(limit * 2, MaxNum), type |-> "search"]

\* Array.prototype.slice(0, n)
slice(seq, n) == SubSeq(seq, 1, Min(n, Len(seq)))

\* data.key || []
ArrayOf(data, key) == IF key \in DOMAIN data THEN data[key] ELSE <<>>

\* r.query || r
RelatedTerm(r) == IF "query" \in DOMAIN r /\ Truthy(r.query) THEN r.query ELSE r

\* A variant whose count is the number of organic results.
CountingOrganic(transformedEvents, organicResults, relatedSearches) ==
  [success |-> TRUE,
   events |-> transformedEvents,
   count |-> Len(organicResults),
   source |-> "serper",
   metadata |-> [totalOrganic |-> Len(organicResults), relatedSearches |-> <<>>]]

\* The envelope of the try block's return.  processingTime, a difference of
\* two clock readings, is not part of the model.
SuccessEnvelope(transformedEvents, organicResults, relatedSearches) ==
  [success |-> TRUE,
   events |-> transformedEvents,
   count |-> Len(transformedEvents),
   source |-> "serper",
   metadata |-> [totalOrganic |-> Len(organicResults),
                 relatedSearches |->
                   slice([k \in 1..Len(relatedSearches) |-> RelatedTerm(relatedSearches[k])],
                         RelatedShown)]]

\* The envelope of the catch block's return.
FailureEnvelope(message) ==
  [success |-> FALSE, error |-> message, events |-> <<>>, count |-> 0, source |-> "serper"]

\* .map(result => this.transformEvent(result, category)).filter(Boolean)
TransformAll(results, category, now) ==
  SelectSeq([k \in 1..Len(results) |-> transformEvent(results[k], category, now)],
            LAMBDA e : ~IsNull(e))

\* A variant without the slice.
Unsliced(eventResults, limit) == eventResults

\* The candidates the slice keeps for the transformation.
Sliced(eventResults, limit) == slice(eventResults, limit)

\* A variant that normalizes every kept candidate and then applies the limit.
LimitAfterTransform(data, category, limit, now, eventResults) ==
  IF eventResults.threw THEN FailureEnvelope(eventResults.message)
  ELSE SuccessEnvelope(Sliced(TransformAll(eventResults.v, category, now), limit),
                       ArrayOf(data, "organic"), ArrayOf(data, "relatedSearches"))

\* The try block from the filter's outcome on, with the catch block.
Processed(data, category, limit, now, eventResults) ==
  IF eventResults.threw THEN FailureEnvelope(eventResults.message)
  ELSE SuccessEnvelope(TransformAll(Sliced(eventResults.v, limit), category, now),
                       ArrayOf(data, "organic"), ArrayOf(data, "relatedSearches"))

\* A variant that skips the check of data.error.
IgnoringErrorField(data, category, limit, now) ==
  IF IsNull(data) THEN FailureEnvelope("Cannot read properties of null (reading 'error')")
  ELSE Processed(data, category, limit, now,
                 filterEventResults(ArrayOf(data, "organic") \o ArrayOf(data, "peopleAlsoAsk")))

\* searchEvents from the parsed body on (data.error to the return), with the
\* catch block: what the call resolves to for the parsed body data.
ProcessData(data, category, limit, now) ==
  IF IsNull(data) THEN FailureEnvelope("Cannot read properties of null (reading 'error')")
  ELSE IF Truthy(Field(data, "error")) THEN FailureEnvelope(StringOf(data.error))
  ELSE Processed(data, category, limit, now,
                 filterEventResults(ArrayOf(data, "organic") \o ArrayOf(data, "peopleAlsoAsk")))

(***************************************************************************)
(* Inputs: the raw results, provider bodies, categories and clock readings *)
(* the specifications draw from.                                           *)
(***************************************************************************)
JazzResult ==
  [title |-> S("Jazz Festival at Blue Note on March 15, 2025"),
   snippet |-> S("Tickets available on eventbrite.com"),
   link |-> S("https://eventbrite.com/jazz")]
\* a venue after "at", and neither a keyword nor a date
ClubResult == [title |-> S("Live at Blue Note Club"), link |-> S("https://example.org/live")]
\* a date, and neither a keyword nor a venue
DateOnlyResult == [title |-> S("Open mic 3/14/25")]
\* a venue word, and neither a keyword nor a date
HallResult == [title |-> S("Town Hall music night"), snippet |-> S("venue: Fox Theater")]
\* none of the three criteria
NewsResult == [title |-> S("City council news"), snippet |-> S("Budget vote")]
\* event-like by its snippet, with neither title nor question
NoTitleResult == [snippet |-> S("Concert tickets https://ticketmaster.com/e9")]
\* a people-also-ask entry
QuestionResult == [question |-> S("What is on tonight"), snippet |-> S("Doors 7pm")]
\* a title that is a number
NumberTitleResult == [title |-> N("2025"), snippet |-> S("Annual festival")]
\* all four boosts for the category "music"
AllBoostsResult == [title |-> S("Music concert May 5"), link |-> S("https://lu.ma/x")]
\* date patterns whose matches parse to no valid date
BadDayResult == [title |-> S("Gala March 45")]
OrdinalResult == [title |-> S("Party 3rd March"), snippet |-> S("at Civic Center")]
\* a ticket platform's link, and another platform's URL in the snippet
BothTicketsResult ==
  [title |-> S("Rock concert"), snippet |-> S("Buy at https://eventbrite.com/e/7"),
   link |-> S("https://ticketmaster.com/rock")]
\* three URLs in the snippet, the second and the third of ticket platforms
SnippetUrlsResult ==
  [title |-> S("Gig"), link |-> S("https://example.org/gig"),
   snippet |-> S("see https://a.com/x and https://www.eventbrite.com/e/1 or https://universe.com/z")]
\* a link of another site that names a ticket platform in its query string
RefLinkResult ==
  [title |-> S("Gig review"), link |-> S("https://example.org/blog?ref=eventbrite.com")]

SampleResults ==
  {JazzResult, ClubResult, DateOnlyResult, HallResult, NewsResult, NoTitleResult,
   QuestionResult, NumberTitleResult, AllBoostsResult, BadDayResult, OrdinalResult,
   BothTicketsResult, SnippetUrlsResult, RefLinkResult, Null}

Categories == {"music", "theatre"}
Locations == {"Austin"}
Nows == {[y |-> 2025, m |-> 8, d |-> 6, ms |-> 1], [y |-> 2026, m |-> 1, d |-> 2, ms |-> 7]}

\* A body the provider sends with a 2xx status: text that is no JSON, or JSON.
Malformed == [json |-> FALSE]
Json(data) == [json |-> TRUE, data |-> data]

EmptyData == [organic |-> <<>>, peopleAlsoAsk |-> <<>>, relatedSearches |-> <<>>]
BareData == [credits |-> N("1")]
ErrorData == [error |-> S("Unauthorized")]
ErrorObjectData == [error |-> Obj, organic |-> <<JazzResult>>]
BlankErrorData == [error |-> S(""), organic |-> <<DateOnlyResult>>]
ArrayErrorData == [error |-> BlankArray]
FullData ==
  [organic |-> <<JazzResult, NewsResult, DateOnlyResult, NoTitleResult, HallResult,
                 AllBoostsResult>>,
   peopleAlsoAsk |-> <<QuestionResult>>,
   relatedSearches |-> <<[query |-> S("jazz tonight")], S("austin events"),
                         [query |-> S("a")], [query |-> S("b")], [query |-> S("c")],
                         [query |-> S("d")]>>]
OddShapeData == [organic |-> <<JazzResult, NumberTitleResult, DateOnlyResult>>]
NullEntryData == [organic |-> <<DateOnlyResult>>, peopleAlsoAsk |-> <<Null>>]
ClubData == [organic |-> <<ClubResult, BadDayResult>>]
PairData == [organic |-> <<DateOnlyResult, BadDayResult>>]

JsonBodies ==
  {Malformed, Json(Null), Json(EmptyData), Json(BareData), Json(ErrorData),
   Json(ErrorObjectData), Json(BlankErrorData), Json(ArrayErrorData), Json(FullData),
   Json(OddShapeData), Json(NullEntryData), Json(ClubData)}

\* Status codes and the text of a non-2xx response.
Statuses == {200, 403, 500}
ErrorTexts == {"", "Unauthorized."}
IsOk(status) == status >= 200 /\ status <= 299

(***************************************************************************)
(* searchEvents as a process.  Every invocation i has its own locals: its  *)
(* position pc, its arguments, its AbortController and timer, the response *)
(* it holds, and the envelope it resolves to.                              *)
(***************************************************************************)
VARIABLES
  pc,         \* "idle", "fetching" (await fetch), "readingText" (await
              \* response.text()), "readingJson" (await response.json()), "done"
  args,       \* [category, location, limit]
  timer,      \* timeoutId: "none", "armed", "cleared" or "fired"
  aborted,    \* controller.signal.aborted
  sent,       \* the requests the invocation has handed to fetch
  response,   \* the status of the response fetch resolved to, 0 before
  delivered,  \* what the provider and the clock did to the invocation
  result,     \* the envelope the promise resolved to, or Pending
  given,      \* a direct call of a pure method: [result, category, now] drawn
  returned,   \* [fn, v]: the method applied and its return value
  healthStatus, \* ApiHealthChecker: this.status
  checks,     \* ApiHealthChecker: the performHealthCheck calls and their locals
  monitoring, \* ApiHealthChecker: this.checkInterval is set
  listeners   \* ApiHealthChecker: this.listeners

pipeVars == <<pc, args, timer, aborted, sent, response, delivered, result>>
unitVars == <<given, returned>>
healthVars == <<healthStatus, checks, monitoring, listeners>>
vars == <<pipeVars, unitVars, healthVars>>

\* The calls that may run concurrently in ConcSpec, and the largest limit.
NumCalls == 2
MaxLimit == 3

Pending == [pending |-> TRUE]
NoDelivery == [kind |-> "none"]
NoArgs == [category |-> "", location |-> "", limit |-> 0]

\* error.message of what fetch, the body readers and JSON parsing reject with
NetworkErrorMessage == "fetch failed"
AbortMessage == "This operation was aborted"
BodyErrorMessage == "terminated"
SyntaxErrorMessage == "Unexpected token < in JSON at position 0"

\* `HTTP ${response.status}: ${errorBody}`
HttpMessage(status, errorBody) == "HTTP " \o IntToString(status) \o ": " \o errorBody

\* A variant with one controller kept on the client and shared by the calls.
SharedController(i) == 1

\* The controller a call's timer aborts: the call's own local.
ControllerOf(i) == i

Waiting == {"fetching", "readingText", "readingJson"}

PipeInit(calls) ==
  /\ pc = [i \in calls |-> "idle"]
  /\ args = [i \in calls |-> NoArgs]
  /\ timer = [i \in calls |-> "none"]
  /\ aborted = [i \in calls |-> FALSE]
  /\ sent = [i \in calls |-> <<>>]
  /\ response = [i \in calls |-> 0]
  /\ delivered = [i \in calls |-> NoDelivery]
  /\ result = [i \in calls |-> Pending]

\* The call resolves to envelope env.
Resolve(i, env) ==
  /\ pc' = [pc EXCEPT ![i] = "done"]
  /\ result' = [result EXCEPT ![i] = env]

\* searchEvents up to the await of fetch: the query and payload, a new
\* AbortController, the timeout timer, and the one request.
Call(i, category, location, limit) ==
  /\ pc[i] = "idle"
  /\ pc' = [pc EXCEPT ![i] = "fetching"]
  /\ args' = [args EXCEPT ![i] = [category |-> category, location |-> location,
                                  limit |-> limit]]
  /\ aborted' = [aborted EXCEPT ![i] = FALSE]
  /\ timer' = [timer EXCEPT ![i] = "armed"]
  /\ sent' = [sent EXCEPT ![i] = Append(@, [url |-> baseUrl, method |-> "POST",
                                            body |-> Payload(category, location, limit)])]
  /\ UNCHANGED <<response, delivered, result, unitVars, healthVars>>

\* fetch resolves with the response's status and headers: clearTimeout, then
\* the await of response.text() or of response.json().
FetchResolves(i, status) ==
  /\ pc[i] = "fetching"
  /\ timer' = [timer EXCEPT ![i] = IF @ = "armed" THEN "cleared" ELSE @]
  /\ response' = [response EXCEPT ![i] = status]
  /\ pc' = [pc EXCEPT ![i] = IF IsOk(status) THEN "readingJson" ELSE "readingText"]
  /\ UNCHANGED <<args, aborted, sent, delivered, result, unitVars, healthVars>>

\* fetch rejects (a network failure): the catch block.  The timer stays armed.
FetchRejects(i) ==
  /\ pc[i] = "fetching"
  /\ delivered' = [delivered EXCEPT ![i] = [kind |-> "neterr"]]
  /\ Resolve(i, FailureEnvelope(NetworkErrorMessage))
  /\ UNCHANGED <<args, timer, aborted, sent, response, unitVars, healthVars>>

\* The timer's callback, controller.abort(): a pending fetch or body read on
\* that controller's signal rejects, and the catch block runs.
TimerFires(i) ==
  /\ timer[i] = "armed"
  /\ timer' = [timer EXCEPT ![i] = "fired"]
  /\ aborted' = [aborted EXCEPT ![ControllerOf(i)] = TRUE]
  /\ delivered' = [delivered EXCEPT ![i] = IF pc[i] \in Waiting THEN [kind |-> "timeout"]
                                           ELSE @]
  /\ IF pc[ControllerOf(i)] \in Waiting
     THEN Resolve(ControllerOf(i), FailureEnvelope(AbortMessage))
     ELSE UNCHANGED <<pc, result>>
  /\ UNCHANGED <<args, sent, response, unitVars, healthVars>>

\* response.text() resolves: throw new Error(`HTTP ${status}: ${errorBody}`).
TextRead(i, errorBody) ==
  /\ pc[i] = "readingText"
  /\ delivered' = [delivered EXCEPT ![i] = [kind |-> "text", text |-> errorBody]]
  /\ Resolve(i, FailureEnvelope(HttpMessage(response[i], errorBody)))
  /\ UNCHANGED <<args, timer, aborted, sent, response, unitVars, healthVars>>

\* response.json() settles: it rejects for a body that is no JSON, and else
\* the rest of the try block runs over the parsed data, at clock reading now.
JsonRead(i, body, now) ==
  /\ pc[i] = "readingJson"
  /\ delivered' = [delivered EXCEPT ![i] = [kind |-> "json", body |-> body, now |-> now]]
  /\ Resolve(i, IF body.json
                THEN ProcessData(body.data, args[i].category, args[i].limit, now)
                ELSE FailureEnvelope(SyntaxErrorMessage))
  /\ UNCHANGED <<args, timer, aborted, sent, response, unitVars, healthVars>>

\* The connection breaks while the body is read: the reader rejects.
BodyFails(i) ==
  /\ pc[i] \in {"readingText", "readingJson"}
  /\ delivered' = [delivered EXCEPT ![i] = [kind |-> "bodyerr"]]
  /\ Resolve(i, FailureEnvelope(BodyErrorMessage))
  /\ UNCHANGED <<args, timer, aborted, sent, response, unitVars, healthVars>>

(***************************************************************************)
(* ApiHealthChecker: the singleton's status, and performHealthCheck calls  *)
(* that the initial check of startMonitoring, the interval's ticks and     *)
(* forceCheck start and that run concurrently, each suspended at its       *)
(* awaits.  Of the status the model keeps isHealthy, backend.reachable,    *)
(* api.functional and consecutiveFailures.                                 *)
(***************************************************************************)
\* The performHealthCheck calls a behaviour can start, and the listeners
\* that can be subscribed at a time.
NumChecks == 3
MaxListeners == 1

CheckIds == 1..NumChecks

\* A subscribed callback returns, or throws.
ListenerKinds == {"returns", "throws"}

\* The status the constructor sets.
InitialStatus ==
  [isHealthy |-> FALSE, reachable |-> FALSE, functional |-> FALSE, consecutiveFailures |-> 0]

NotStarted == [pc |-> "idle", reachable |-> FALSE, functional |-> FALSE]

HealthInit ==
  /\ healthStatus = InitialStatus
  /\ checks = [c \in CheckIds |-> NotStarted]
  /\ monitoring = FALSE
  /\ listeners = <<>>

\* The call slot the next performHealthCheck takes, 0 when all are used.
FreshCheck == Least({c \in CheckIds : checks[c].pc = "idle"}, 0)

\* performHealthCheck up to the await of checkBackendHealth.
Begin(c) == checks' = [checks EXCEPT ![c].pc = "backend"]

\* startMonitoring: the initial check, and the interval.
StartMonitoring ==
  /\ FreshCheck # 0
  /\ Begin(FreshCheck)
  /\ monitoring' = TRUE
  /\ UNCHANGED <<healthStatus, listeners, pipeVars, unitVars>>

\* The interval's callback.
Tick ==
  /\ monitoring
  /\ FreshCheck # 0
  /\ Begin(FreshCheck)
  /\ UNCHANGED <<healthStatus, monitoring, listeners, pipeVars, unitVars>>

\* stopMonitoring
StopMonitoring ==
  /\ monitoring
  /\ monitoring' = FALSE
  /\ UNCHANGED <<healthStatus, checks, listeners, pipeVars, unitVars>>

\* forceCheck
ForceCheck ==
  /\ FreshCheck # 0
  /\ Begin(FreshCheck)
  /\ UNCHANGED <<healthStatus, monitoring, listeners, pipeVars, unitVars>>

\* subscribe(callback)
Subscribe(kind) ==
  /\ Len(listeners) < MaxListeners
  /\ listeners' = Append(listeners, kind)
  /\ UNCHANGED <<healthStatus, checks, monitoring, pipeVars, unitVars>>

\* The function subscribe returned: the callback's first entry is spliced out.
Unsubscribe(kind) ==
  /\ \E k \in 1..Len(listeners) : listeners[k] = kind
  /\ listeners' =
       [k \in 1..(Len(listeners) - 1) |->
          IF k < Least({j \in 1..Len(listeners) : listeners[j] = kind}, 0)
          THEN listeners[k] ELSE listeners[k + 1]]
  /\ UNCHANGED <<healthStatus, checks, monitoring, pipeVars, unitVars>>

\* notifyListeners: forEach stops at the first callback that throws.
NotifyThrows == \E k \in 1..Len(listeners) : listeners[k] = "throws"

\* The status the try block assigns.
CheckedStatus(reachable, functional) ==
  [isHealthy |-> reachable /\ functional,
   reachable |-> reachable,
   functional |-> functional,
   consecutiveFailures |->
     IF reachable /\ functional THEN 0 ELSE healthStatus.consecutiveFailures + 1]

\* The status the catch block assigns over the status stored before it.
FailedStatus(stored) ==
  [isHealthy |-> FALSE, reachable |-> FALSE, functional |-> FALSE,
   consecutiveFailures |-> stored.consecutiveFailures + 1]

\* performHealthCheck from isHealthy to its return, run without a pause:
\* the status is assigned and the listeners are notified; a callback that
\* throws in the try block lands in the catch block, which assigns the
\* status again and notifies again, and that throw rejects the promise.
Finish(c, reachable, functional) ==
  /\ healthStatus' = IF NotifyThrows THEN FailedStatus(CheckedStatus(reachable, functional))
               ELSE CheckedStatus(reachable, functional)
  /\ checks' = [checks EXCEPT ![c] = [pc |-> IF NotifyThrows THEN "rejected" ELSE "done",
                                      reachable |-> reachable,
                                      functional |-> functional]]
  /\ UNCHANGED <<monitoring, listeners, pipeVars, unitVars>>

\* checkBackendHealth resolves.  Reachable: testApiFunction is awaited;
\* unreachable: the api record is filled in and the check runs to its end.
BackendAnswers(c, reachable) ==
  /\ checks[c].pc = "backend"
  /\ IF reachable
     THEN /\ checks' = [checks EXCEPT ![c] = [pc |-> "api", reachable |-> TRUE,
                                              functional |-> FALSE]]
          /\ UNCHANGED <<healthStatus, monitoring, listeners, pipeVars, unitVars>>
     ELSE Finish(c, FALSE, FALSE)

\* testApiFunction resolves.
ApiAnswers(c, functional) ==
  /\ checks[c].pc = "api"
  /\ Finish(c, TRUE, functional)

HealthNext ==
  \/ StartMonitoring
  \/ Tick
  \/ StopMonitoring
  \/ ForceCheck
  \/ \E kind \in ListenerKinds : Subscribe(kind)
  \/ \E kind \in ListenerKinds : Unsubscribe(kind)
  \/ \E c \in CheckIds, reachable \in BOOLEAN : BackendAnswers(c, reachable)
  \/ \E c \in CheckIds, functional \in BOOLEAN : ApiAnswers(c, functional)

(***************************************************************************)
(* Direct calls of the pure methods, one at a time: the arguments and what *)
(* the method returned.                                                    *)
(***************************************************************************)
NotCalled == [fn |-> "none"]
NoGiven == [result |-> Null, category |-> "", now |-> InvalidDate]

\* title + ' ' + snippet, the text transformEvent hands to the extractors
EventText(serperResult) ==
  StringOf(OrElse(Field(serperResult, "title"), Field(serperResult, "question"))) \o " "
    \o StringOf(OrElse(Field(serperResult, "snippet"), S("")))

UnitInit ==
  /\ PipeInit({1})
  /\ HealthInit
  /\ given \in [result : SampleResults \ {Null}, category : Categories, now : Nows]
  /\ returned = NotCalled

UnitIdle == given = NoGiven /\ returned = NotCalled

Return(fn, value) ==
  /\ returned = NotCalled
  /\ returned' = [fn |-> fn, v |-> value]
  /\ UNCHANGED <<given, pipeVars, healthVars>>

CallFilterEventResults == Return("filterEventResults", filterEventResults(<<given.result>>))
CallTransformEvent ==
  Return("transformEvent", transformEvent(given.result, given.category, given.now))
CallExtractDateInfo ==
  Return("extractDateInfo", extractDateInfo(EventText(given.result), given.now))
CallExtractVenue == Return("extractVenue", extractVenue(EventText(given.result)))
CallCalculateConfidence ==
  Return("calculateConfidence", calculateConfidence(given.result, given.category))
\* this.extractTicketUrl(serperResult.link, snippet), as transformEvent calls it
CallExtractTicketUrl ==
  Return("extractTicketUrl",
         extractTicketUrl(Field(given.result, "link"),
                          OrElse(Field(given.result, "snippet"), S(""))))

UnitNext ==
  \/ CallFilterEventResults
  \/ CallTransformEvent
  \/ CallExtractDateInfo
  \/ CallExtractVenue
  \/ CallCalculateConfidence
  \/ CallExtractTicketUrl

\* The pure methods, applied to every drawn argument.
UnitSpec == UnitInit /\ [][UnitNext]_vars

(***************************************************************************)
(* One searchEvents call against every provider behaviour.                 *)
(***************************************************************************)
Init == PipeInit({1}) /\ UnitIdle /\ HealthInit

Next ==
  \/ \E c \in Categories, loc \in Locations, l \in 1..MaxLimit : Call(1, c, loc, l)
  \/ \E st \in Statuses : FetchResolves(1, st)
  \/ FetchRejects(1)
  \/ TimerFires(1)
  \/ \E txt \in ErrorTexts : TextRead(1, txt)
  \/ \E b \in JsonBodies, now \in Nows : JsonRead(1, b, now)
  \/ BodyFails(1)

Spec == Init /\ [][Next]_vars

\* The health checker alone: its operations in every order.
HealthSpec == Init /\ [][HealthNext]_vars

(***************************************************************************)
(* NumCalls concurrent searchEvents calls on one client.                   *)
(***************************************************************************)
Calls == 1..NumCalls
\* The arguments of call i: calls next to each other differ in category and limit.
RequestOf(i) ==
  [category |-> IF i % 2 = 1 THEN "music" ELSE "theatre",
   location |-> "Austin",
   limit |-> 1 + ((i + 1) % 2)]
ConcBodies == {Json(ErrorData), Json(PairData)}
ConcNow == [y |-> 2025, m |-> 8, d |-> 6, ms |-> 1]

ConcInit == PipeInit(Calls) /\ UnitIdle /\ HealthInit

ConcNext ==
  \E i \in Calls :
    \/ Call(i, RequestOf(i).category, RequestOf(i).location, RequestOf(i).limit)
    \/ \E st \in {200, 500} : FetchResolves(i, st)
    \/ FetchRejects(i)
    \/ TimerFires(i)
    \/ TextRead(i, "Unauthorized.")
    \/ \E b \in ConcBodies : JsonRead(i, b, ConcNow)
    \/ BodyFails(i)

ConcSpec == ConcInit /\ [][ConcNext]_vars

\* The runtime runs the callback of an armed timer; nothing obliges the
\* provider to answer.
LiveSpec == ConcSpec /\ \A i \in Calls : WF_vars(TimerFires(i))

(***************************************************************************)
(* Properties                                                              *)
(***************************************************************************)
Done(i) == pc[i] = "done"

\* The parsed body of a call the provider answered with JSON, and whether
\* the call was answered so.
GotJson(i) == delivered[i].kind = "json" /\ delivered[i].body.json
DataOf(i) == delivered[i].body.data
ErrorField(i) == Field(DataOf(i), "error")

\* The provider call failed: a network error, the timeout's abort, a non-2xx
\* response, a body that breaks off or is no JSON, or a populated error field.
ProviderFailed(i) ==
  \/ delivered[i].kind \in {"neterr", "timeout", "text", "bodyerr"}
  \/ delivered[i].kind = "json" /\ ~delivered[i].body.json
  \/ GotJson(i) /\ ~IsNull(DataOf(i)) /\ Truthy(ErrorField(i))

\* success=false, events=[], count=0 and an error message
IsFailure(env) ==
  /\ env # Pending
  /\ env.success = FALSE
  /\ env.events = <<>>
  /\ env.count = 0
  /\ "error" \in DOMAIN env

\* C1 (as amended): a searchEvents call whose provider call failed returns a
\* value with success=false, events=[], count=0 and an error message, and
\* the message is empty only when the provider's error field is a value
\* whose string form is empty (an array such as [] or [""]).
C1_FailureEnvelope ==
  \A i \in DOMAIN pc :
    Done(i) /\ ProviderFailed(i) =>
      /\ IsFailure(result[i])
      /\ result[i].error = "" => GotJson(i) /\ StringOf(ErrorField(i)) = ""

\* C1 as stated: the error message of every such failure is non-empty.
C1_NonEmptyError ==
  \A i \in DOMAIN pc :
    Done(i) /\ ProviderFailed(i) => IsFailure(result[i]) /\ result[i].error # ""

\* A call failed by a provider-reported error.
C1_Witness ==
  /\ Done(1)
  /\ GotJson(1)
  /\ DataOf(1) = ErrorData
  /\ result[1] = FailureEnvelope("Unauthorized")

\* C2: every searchEvents call that has started eventually resolves to an
\* envelope, whatever the provider does, given that the runtime runs the
\* callback of an armed timer; and it hands fetch one request and no more.
C2_EventuallyResolves ==
  \A i \in Calls : (pc[i] # "idle") ~> (Done(i) /\ Len(sent[i]) = 1)

\* C3: the envelope of a call with limit >= 1 holds at most limit events.
C3_AtMostLimit ==
  \A i \in DOMAIN pc :
    Done(i) /\ args[i].limit >= 1 => Len(result[i].events) <= args[i].limit

\* More candidates pass the classifier than the limit of 2, and 2 are returned.
C3_Witness ==
  /\ Done(1)
  /\ args[1].limit = 2
  /\ GotJson(1)
  /\ DataOf(1) = FullData
  /\ Len(filterEventResults(FullData.organic \o FullData.peopleAlsoAsk).v) > 2
  /\ Len(result[1].events) = 2

\* The sums the base and a choice of the four boosts give, each boost once.
BoostSums ==
  {BaseConfidence + a * DomainBoost + b * CategoryBoost + c * KeywordBoost + d * DateBoost :
     a \in {0, 1}, b \in {0, 1}, c \in {0, 1}, d \in {0, 1}}

\* C4: calculateConfidence returns a score in [0, 1] (0..100 hundredths),
\* never under the base 0.6: the base plus each of the four boosts at most
\* once, capped at 1.0.
C4_ConfidenceRange ==
  returned.fn = "calculateConfidence" =>
    /\ returned.v >= 0
    /\ returned.v <= MaxConfidence
    /\ returned.v >= BaseConfidence
    /\ returned.v \in {Min(sum, MaxConfidence) : sum \in BoostSums}

\* All four boosts apply (the sum is 1.05) and the score is 1.0.
C4_Witness ==
  /\ returned.fn = "calculateConfidence"
  /\ given.result = AllBoostsResult
  /\ given.category = "music"
  /\ Boosted(ConfidenceText(given.result), given.category) = 105
  /\ returned.v = 100

CombinedText(serperResult) ==
  StringOf(OrElse(Field(serperResult, "title"), S(""))) \o " "
    \o StringOf(OrElse(Field(serperResult, "snippet"), S(""))) \o " "
    \o StringOf(OrElse(Field(serperResult, "link"), S(""))) \o " "
    \o StringOf(OrElse(Field(serperResult, "question"), S("")))

\* The venue rules of extractVenue: at/@ and a capitalized venue name, a
\* bare venue name, a venue: or location: label.
NamesVenue(text) == extractVenue(text) # SeeEventPage

\* C6: filterEventResults keeps a result if and only if its combined text
\* holds an event keyword, or matches a date pattern, or names a venue by
\* one of the venue rules; so a result with only a venue such as
\* "at <Capitalized Name> Club" is kept.
C6_ClassifierIsPureOr ==
  (returned.fn = "filterEventResults" /\ ~returned.v.threw) =>
    ((returned.v.v = <<given.result>>) <=>
       \/ HasKeyword(toLowerCase(CombinedText(given.result)))
       \/ containsDatePattern(toLowerCase(CombinedText(given.result)))
       \/ NamesVenue(CombinedText(given.result)))

\* C7: a result of an unexpected shape never aborts the batch: whenever the
\* provider answers with a JSON object without a populated error field, the
\* envelope is success=true, and it holds the events of the well-shaped
\* candidates.
C7_BatchSurvivesBadItem ==
  \A i \in DOMAIN pc :
    (Done(i) /\ GotJson(i) /\ ~IsNull(DataOf(i)) /\ ~Truthy(ErrorField(i))) =>
      /\ result[i].success = TRUE
      /\ "error" \notin DOMAIN result[i]

\* No date pattern has in text a match that parses to a valid date.
NoValidDate(text, now) ==
  \A k \in 1..Len(extractDatePatterns) :
    LET match == Exec(extractDatePatterns[k].re, extractDatePatterns[k].ci, text)
    IN  match.found => NewDate(DateStrOf(extractDatePatterns[k], match.c, now)) = InvalidDate

\* No venue pattern matches text.
NoVenueMatch(text) ==
  \A k \in 1..Len(extractVenuePatterns) : ~Test(extractVenuePatterns[k], TRUE, text)

\* C8: extractDateInfo returns startDate equal to endDate, both the
\* extraction-time timestamp when no date pattern matches or no match parses
\* to a valid date; extractVenue returns a non-empty string, which is
\* "See Event Page" when no venue pattern matches.
C8_Fallbacks ==
  /\ returned.fn = "extractDateInfo" =>
       /\ returned.v.startDate = returned.v.endDate
       /\ returned.v.startDate # InvalidDate
       /\ NoValidDate(EventText(given.result), given.now) =>
            returned.v.startDate = given.now
  /\ returned.fn = "extractVenue" =>
       /\ returned.v # ""
       /\ NoVenueMatch(EventText(given.result)) => returned.v = SeeEventPage

\* A date pattern matches ("March 45") and the match parses to no valid date.
C8_Witness ==
  /\ returned.fn = "extractDateInfo"
  /\ given.result = BadDayResult
  /\ Test(extractDatePatterns[1].re, TRUE, EventText(given.result))
  /\ returned.v.startDate = given.now
  /\ returned.v.endDate = given.now

\* The Jazz Festival result is the argument, with the category "music".
JazzGiven == given.result = JazzResult /\ given.category = "music"

\* What C9 holds of every method but extractVenue: the classifier accepts
\* the result, the date is March 15, 2025, the ticket URL is the link, and
\* the confidence is 0.95, without the category boost.
JazzOtherwise ==
  /\ returned.fn = "filterEventResults" => returned.v = Returned(<<JazzResult>>)
  /\ returned.fn = "transformEvent" =>
       /\ ~IsNull(returned.v)
       /\ returned.v.startDate = [y |-> 2025, m |-> 3, d |-> 15, ms |-> 0]
       /\ returned.v.ticketUrl = JazzResult.link
       /\ returned.v.confidence = 95
  /\ returned.fn = "calculateConfidence" =>
       /\ returned.v = BaseConfidence + DomainBoost + KeywordBoost + DateBoost
       /\ ~includes(ConfidenceText(JazzResult), "music")

\* C9 (as amended): for the Jazz Festival result and the category "music"
\* the classifier accepts the result, the date is March 15, 2025, the ticket
\* URL equals the link, the confidence is 0.95, and the venue is the
\* fallback "See Event Page": "Blue Note" ends in no venue noun.
C9_JazzScenario ==
  JazzGiven =>
    /\ JazzOtherwise
    /\ returned.fn = "transformEvent" => returned.v.venue = SeeEventPage
    /\ returned.fn = "extractVenue" => returned.v = SeeEventPage

\* C9 as stated: the extracted venue contains "Blue Note".
C9_VenueHoldsBlueNote ==
  JazzGiven =>
    /\ JazzOtherwise
    /\ returned.fn = "transformEvent" => includes(returned.v.venue, "Blue Note")
    /\ returned.fn = "extractVenue" => includes(returned.v, "Blue Note")

\* The Jazz Festival result transformed.
C9_Witness ==
  /\ JazzGiven
  /\ returned.fn = "transformEvent"
  /\ returned.v.title = "Jazz Festival at Blue Note on March 15, 2025"
  /\ returned.v.confidence = 95

\* The envelope call i resolves to when it runs alone with its arguments
\* and the outcome the provider and the clock delivered to it.
Alone(i) ==
  CASE delivered[i].kind = "neterr" -> FailureEnvelope(NetworkErrorMessage)
    [] delivered[i].kind = "timeout" -> FailureEnvelope(AbortMessage)
    [] delivered[i].kind = "bodyerr" -> FailureEnvelope(BodyErrorMessage)
    [] delivered[i].kind = "text" ->
         FailureEnvelope(HttpMessage(response[i], delivered[i].text))
    [] delivered[i].kind = "json" ->
         IF delivered[i].body.json
         THEN ProcessData(DataOf(i), args[i].category, args[i].limit, delivered[i].now)
         ELSE FailureEnvelope(SyntaxErrorMessage)
    [] OTHER -> Pending

\* C10: under every interleaving of concurrent searchEvents calls, each call
\* resolves exactly when the provider or its own timer has delivered its
\* outcome, to the envelope it resolves to alone with the same arguments and
\* outcome; and the one request it sent is the request of its own arguments.
C10_Independent ==
  \A i \in DOMAIN pc :
    /\ Done(i) <=> delivered[i] # NoDelivery
    /\ Done(i) => result[i] = Alone(i)
    /\ ~Done(i) => result[i] = Pending
    /\ \A k \in 1..Len(sent[i]) :
         sent[i][k].body = Payload(args[i].category, args[i].location, args[i].limit)

\* Two calls with different arguments, one timed out while the other was
\* answered with events.
C10_Witness ==
  /\ Done(1) /\ Done(2)
  /\ args[1] # args[2]
  /\ delivered[1].kind = "timeout"
  /\ GotJson(2)
  /\ result[1] = FailureEnvelope(AbortMessage)
  /\ result[2].success = TRUE
  /\ Len(result[2].events) > 0

\* The candidate sequence of a call answered with JSON: all organic results
\* followed by all people-also-ask entries.
Candidates(i) == ArrayOf(DataOf(i), "organic") \o ArrayOf(DataOf(i), "peopleAlsoAsk")

\* The call resolved to a success envelope.
Succeeded(i) == Done(i) /\ GotJson(i) /\ result[i].success = TRUE

\* The events from index j on are, in order, the events of candidates picked
\* from index k on.
RECURSIVE EmbedsFrom(_, _, _, _, _, _)
EmbedsFrom(events, j, cands, k, category, now) ==
  IF j > Len(events) THEN TRUE
  ELSE IF k > Len(cands) THEN FALSE
  ELSE IF transformEvent(cands[k], category, now) = events[j]
  THEN EmbedsFrom(events, j + 1, cands, k + 1, category, now)
  ELSE EmbedsFrom(events, j, cands, k + 1, category, now)

\* C11: the events of a successful envelope are an order-preserving
\* subsequence of the candidates (organic results, then people-also-ask
\* entries), one event per kept candidate; related searches give no events
\* and appear only in metadata.relatedSearches, which holds the first five
\* of them at most.
C11_OrderedSubsequence ==
  \A i \in DOMAIN pc :
    Succeeded(i) =>
      /\ EmbedsFrom(result[i].events, 1, Candidates(i), 1, args[i].category,
                    delivered[i].now)
      /\ result[i].metadata.totalOrganic = Len(ArrayOf(DataOf(i), "organic"))
      /\ LET related == ArrayOf(DataOf(i), "relatedSearches")
             shown == result[i].metadata.relatedSearches
         IN  /\ Len(shown) = Min(Len(related), 5)
             /\ \A k \in 1..Len(shown) : shown[k] = RelatedTerm(related[k])

\* Events of an organic result and of a later one, and five of six related
\* searches shown.
C11_Witness ==
  /\ Succeeded(1)
  /\ DataOf(1) = FullData
  /\ Len(result[1].events) >= 2
  /\ result[1].events[1].title = JazzResult.title.v
  /\ result[1].events[2].title = DateOnlyResult.title.v
  /\ Len(FullData.relatedSearches) = 6
  /\ Len(result[1].metadata.relatedSearches) = 5

\* The host of a URL: the text between "://" and the first of / ? # :
hostPattern ==
  Cat(<<Lit("http"), Opt(Lit("s")), Lit("://"), Grp(1, Plus(NotCls({"/", "?", "#", ":"})))>>)
HostOf(url) == Exec(hostPattern, TRUE, url).c[1]

\* text ends with part.
EndsWith(text, part) ==
  Len(text) >= Len(part) /\ SubSeq(text, Len(text) - Len(part) + 1, Len(text)) = part

\* The URL's domain is in the allow-list: its host is a listed domain or a
\* subdomain of one.
DomainAllowed(url) ==
  \E k \in 1..Len(ticketDomains) :
    toLowerCase(HostOf(url)) = ticketDomains[k]
      \/ EndsWith(toLowerCase(HostOf(url)), "." \o ticketDomains[k])

\* The first of the urls whose domain is in the allow-list, or none (null).
RECURSIVE FirstAllowed(_, _)
FirstAllowed(urls, k) ==
  IF k > Len(urls) THEN Null
  ELSE IF DomainAllowed(urls[k]) THEN S(urls[k])
  ELSE FirstAllowed(urls, k + 1)

\* The arguments of the direct call of extractTicketUrl.
GivenEventUrl == Field(given.result, "link")
GivenSnippet == OrElse(Field(given.result, "snippet"), S(""))

\* C12: extractTicketUrl returns eventUrl unchanged if its domain is in the
\* allow-list, whatever the snippet holds; otherwise the first URL of the
\* snippet, in text order, whose domain is in the allow-list; otherwise
\* none.  It never returns a URL whose domain is not in the allow-list.
C12_TicketUrlOrder ==
  (returned.fn = "extractTicketUrl" /\ ~returned.v.threw) =>
    /\ returned.v.v =
         IF Truthy(GivenEventUrl) /\ DomainAllowed(GivenEventUrl.v) THEN GivenEventUrl
         ELSE FirstAllowed(MatchAll(urlPattern, GivenSnippet.v, 1), 1)
    /\ ~IsNull(returned.v.v) => DomainAllowed(returned.v.v.v)

\* The candidates of call i the classifier accepts, in order.
Accepted(i) == SelectSeq(Candidates(i), LAMBDA c : IsEventLike(SearchText(c).v))

\* The events of the candidates cands that the normalizer does not drop.
Normalized(cands, category, now) ==
  SelectSeq([k \in 1..Len(cands) |-> transformEvent(cands[k], category, now)],
            LAMBDA e : ~IsNull(e))

\* C13: the limit is applied to the classified candidates before the
\* normalization: the events are exactly the normalized members of the first
\* limit accepted candidates, so a candidate the normalizer drops uses up a
\* slot and no later candidate takes its place.
C13_LimitBeforeNormalization ==
  \A i \in DOMAIN pc :
    Succeeded(i) =>
      result[i].events =
        Normalized(SubSeq(Accepted(i), 1, Min(args[i].limit, Len(Accepted(i)))),
                   args[i].category, delivered[i].now)

\* More than limit candidates qualify and count is below limit: the third
\* accepted candidate has neither title nor question, and the fourth, which
\* the normalizer would keep, is not among the events.
C13_Witness ==
  /\ Succeeded(1)
  /\ DataOf(1) = FullData
  /\ args[1].limit = 3
  /\ Len(Accepted(1)) > 3
  /\ Accepted(1)[3] = NoTitleResult
  /\ Accepted(1)[4] = HallResult
  /\ ~IsNull(transformEvent(HallResult, args[1].category, delivered[1].now))
  /\ result[1].count = 2
  /\ \A k \in 1..Len(result[1].events) : result[1].events[k].title # HallResult.title.v

(***************************************************************************)
(* The failure counter of the health checker                               *)
(***************************************************************************)
\* Check c runs to its end in this step, normally or through the catch block.
Completes(c) ==
  /\ checks[c].pc \in {"backend", "api"}
  /\ checks'[c].pc \in {"done", "rejected"}

\* Check c found the backend reachable and the API functional.
FoundHealthy(c) == checks[c].reachable /\ checks[c].functional

\* In every state, isHealthy only with a counter of 0 and with
\* backend.reachable and api.functional.
HealthyMeansClean ==
  healthStatus.isHealthy =>
    /\ healthStatus.consecutiveFailures = 0
    /\ healthStatus.reachable
    /\ healthStatus.functional

\* The step of a check that runs to its end leaves the counter at 0 when the
\* check found the service healthy, else at one more than the stored value.
CountsOnce ==
  \A c \in CheckIds :
    Completes(c) =>
      healthStatus'.consecutiveFailures =
        IF FoundHealthy(c)' THEN 0 ELSE healthStatus.consecutiveFailures + 1

\* C14: under every interleaving of the performHealthCheck calls, a check
\* that completes sets consecutiveFailures to 0 if it found the backend
\* reachable and the API functional, else to exactly one more than the value
\* stored when it completes; and in every state isHealthy implies
\* consecutiveFailures = 0, backend.reachable and api.functional.
C14_CountedOnce == [](HealthyMeansClean) /\ [][CountsOnce]_vars

====
